---- MODULE Spec2Model ----
(***************************************************************************)
(* Model of api/chat.js: a serverless handler that relays chat-completion  *)
(* requests to the Fireworks inference API, buffered or streamed.          *)
(*                                                                         *)
(* One invocation of the handler is modelled.  The handler runs            *)
(* synchronously up to each await; what it awaits (the fetch, the body     *)
(* text, the body JSON, a chunk of the body stream) is delivered by the    *)
(* upstream, one action per delivery.                                      *)
(*                                                                         *)
(* JavaScript values are written as their literal text ("undefined",       *)
(* "0", "0.6", "true"); byte chunks are sequences of integers 0..255.      *)
(***************************************************************************)
EXTENDS Integers, Sequences, FiniteSets, TLC

(***************************************************************************)
(* Bounds of the model.                                                    *)
(***************************************************************************)
MaxMsgs == 2
MaxChunks == 2
MaxTools == 1

(***************************************************************************)
(* JavaScript values.                                                      *)
(***************************************************************************)
Undef == "undefined"

\* ToBoolean: the falsy scalars (the operand of !x and of x || d).
Falsy == {"undefined", "null", "false", "0", "NaN", "\"\""}

ToBoolean(v) == v \notin Falsy

\* A mutant of JsOr: v ?? d, which keeps 0, false and "".
NullishOr(v, d) == IF v \in {"undefined", "null"} THEN d ELSE v

\* v || d
JsOr(v, d) == IF ToBoolean(v) THEN v ELSE d

\* A value that may be an array: kind "undefined", "null", "boolean" (true),
\* "string" (len characters) or "array" (its elements in items).  len is the
\* value's length property, read only of a string or an array.
Val(kind, len, items) == [kind |-> kind, len |-> len, items |-> items]

UndefVal == Val("undefined", 0, <<>>)

NullVal == Val("null", 0, <<>>)

TrueVal == Val("boolean", 0, <<>>)

Str(len) == Val("string", len, <<>>)

Arr(items) == Val("array", Len(items), items)

ValTruthy(v) ==
    /\ v.kind \notin {"undefined", "null"}
    /\ ~(v.kind = "string" /\ v.len = 0)

\* v.length > 0, where v.length is undefined unless v is an array or a string
\* (undefined > 0 is false).
LengthPositive(v) == v.kind \in {"array", "string"} /\ v.len > 0

SeqsUpTo(S, n) == UNION {[1..k -> S] : k \in 0..n}

(***************************************************************************)
(* Messages.  An entry of messages is null or an object whose content is   *)
(* undefined, a string (holding a reflection marker or not), a number or   *)
(* an array (content parts).                                               *)
(***************************************************************************)
Entry(isNull, ctype, marker) == [isNull |-> isNull, ctype |-> ctype, marker |-> marker]

NullEntry == Entry(TRUE, "undefined", FALSE)

Entries ==
    { NullEntry,
      Entry(FALSE, "undefined", FALSE),
      Entry(FALSE, "string", FALSE),
      Entry(FALSE, "string", TRUE),
      Entry(FALSE, "number", FALSE),
      Entry(FALSE, "array", FALSE) }

\* m.content?.includes(marker) || ... for one entry: "throw" (TypeError),
\* "true" or "false".
EntryMatches(m) ==
    IF m.isNull THEN "throw"
    ELSE IF m.ctype = "undefined" THEN "false"
    ELSE IF m.ctype = "string" THEN (IF m.marker THEN "true" ELSE "false")
    ELSE IF m.ctype = "array" THEN "false"
    ELSE "throw"

\* Array.prototype.some over items[i..]: stops at the first match.
RECURSIVE SomeMatches(_, _)
SomeMatches(items, i) ==
    IF i > Len(items) THEN "false"
    ELSE LET r == EntryMatches(items[i])
         IN  IF r = "false" THEN SomeMatches(items, i + 1) ELSE r

\* messages[messages.length - 1]?.content?.substring(0, 100): does it throw?
PreviewThrows(items) ==
    /\ Len(items) > 0
    /\ ~items[Len(items)].isNull
    /\ items[Len(items)].ctype \in {"number", "array"}

\* The request logging: the value of hasAdvancedCoD ("true" / "false"), or
\* "throw" when messages.some or the preview raises a TypeError.
Instrumentation(messages) ==
    IF messages.kind # "array" THEN "throw"
    ELSE LET r == SomeMatches(messages.items, 1)
         IN  IF r = "throw" \/ PreviewThrows(messages.items) THEN "throw" ELSE r

(***************************************************************************)
(* The request body and the upstream payload.                              *)
(***************************************************************************)
Default(f) ==
    CASE f = "temperature" -> "0.6"
      [] f = "top_p" -> "1"
      [] f = "top_k" -> "40"
      [] f = "max_tokens" -> "8192"
      [] f = "presence_penalty" -> "0"
      [] f = "frequency_penalty" -> "0"
      [] f = "stream" -> "false"

\* A mutant of MissingRequired: only model is checked.
MissingModelOnly(body) == ~ToBoolean(body.model)

\* !model || !messages
MissingRequired(body) == ~ToBoolean(body.model) \/ ~ValTruthy(body.messages)

\* The payload sent upstream; a field that is "undefined" is absent from the
\* serialized JSON.
FireworksPayload(body) ==
    LET withTools == ValTruthy(body.tools) /\ LengthPositive(body.tools)
    IN  [ model |-> body.model,
          messages |-> body.messages,
          temperature |-> JsOr(body.temperature, Default("temperature")),
          top_p |-> JsOr(body.top_p, Default("top_p")),
          top_k |-> JsOr(body.top_k, Default("top_k")),
          max_tokens |-> JsOr(body.max_tokens, Default("max_tokens")),
          presence_penalty |-> JsOr(body.presence_penalty, Default("presence_penalty")),
          frequency_penalty |-> JsOr(body.frequency_penalty, Default("frequency_penalty")),
          stream |-> JsOr(body.stream, Default("stream")),
          tools |-> IF withTools THEN body.tools ELSE UndefVal,
          tool_choice |-> IF withTools /\ ToBoolean(body.tool_choice)
                          THEN body.tool_choice ELSE Undef ]

Body(present, model, messages, opt, stream, tools, tool_choice) ==
    [ present |-> present, model |-> model, messages |-> messages,
      temperature |-> opt[1], top_p |-> opt[2], top_k |-> opt[3],
      max_tokens |-> opt[4], presence_penalty |-> opt[5],
      frequency_penalty |-> opt[6],
      stream |-> stream, tools |-> tools, tool_choice |-> tool_choice ]

AllUndef == <<Undef, Undef, Undef, Undef, Undef, Undef>>

\* req.body when no body was sent (null or undefined).
NoBody == Body(FALSE, Undef, UndefVal, AllUndef, Undef, UndefVal, Undef)

(***************************************************************************)
(* TextDecoder('utf-8').decode(value, {stream: true}) and the UTF-8        *)
(* encoding res.write applies to the decoded string.                       *)
(***************************************************************************)
\* The decoder's state: the code point under construction, the bytes still
\* needed and seen, the range allowed for the next byte, and whether the
\* start of the stream (a byte order mark) is behind.
NewDecoder ==
    [cp |-> 0, needed |-> 0, seen |-> 0, lower |-> 128, upper |-> 191, bomSeen |-> FALSE]

ResetDecoder(d) == [d EXCEPT !.cp = 0, !.needed = 0, !.seen = 0, !.lower = 128, !.upper = 191]

\* One byte with no sequence open: <<decoder, code points emitted>>.
DecodeLead(d, b) ==
    IF b <= 127 THEN <<d, <<b>>>>
    ELSE IF b >= 194 /\ b <= 223 THEN <<[d EXCEPT !.needed = 1, !.cp = b - 192], <<>>>>
    ELSE IF b >= 224 /\ b <= 239
         THEN <<[d EXCEPT !.needed = 2, !.cp = b - 224,
                          !.lower = IF b = 224 THEN 160 ELSE 128,
                          !.upper = IF b = 237 THEN 159 ELSE 191], <<>>>>
    ELSE IF b >= 240 /\ b <= 244
         THEN <<[d EXCEPT !.needed = 3, !.cp = b - 240,
                          !.lower = IF b = 240 THEN 144 ELSE 128,
                          !.upper = IF b = 244 THEN 143 ELSE 191], <<>>>>
    ELSE <<d, <<65533>>>>

\* One byte: an ill-formed sequence becomes U+FFFD and the byte is read again
\* as the start of a sequence.
DecodeByte(d, b) ==
    IF d.needed = 0 THEN DecodeLead(d, b)
    ELSE IF b < d.lower \/ b > d.upper
         THEN LET r == DecodeLead(ResetDecoder(d), b)
              IN  <<r[1], <<65533>> \o r[2]>>
    ELSE LET cp == d.cp * 64 + (b - 128)
         IN  IF d.seen + 1 = d.needed
             THEN <<ResetDecoder(d), <<cp>>>>
             ELSE <<[d EXCEPT !.cp = cp, !.seen = d.seen + 1, !.lower = 128, !.upper = 191], <<>>>>

RECURSIVE DecodeBytes(_, _, _, _)
DecodeBytes(d, bytes, i, out) ==
    IF i > Len(bytes) THEN <<d, out>>
    ELSE LET r == DecodeByte(d, bytes[i])
         IN  DecodeBytes(r[1], bytes, i + 1, out \o r[2])

\* decoder.decode(value, {stream: true}): <<decoder, the string's code
\* points>>.  An incomplete sequence at the end of the chunk stays in the
\* decoder; a byte order mark at the start of the stream is dropped.
Decode(d, bytes) ==
    LET r == DecodeBytes(d, bytes, 1, <<>>)
        out == r[2]
    IN  IF r[1].bomSeen \/ out = <<>> THEN r
        ELSE <<[r[1] EXCEPT !.bomSeen = TRUE],
               IF out[1] = 65279 THEN Tail(out) ELSE out>>

\* The UTF-8 bytes of one code point.
EncodeCodePoint(cp) ==
    IF cp < 128 THEN <<cp>>
    ELSE IF cp < 2048 THEN <<192 + (cp \div 64), 128 + (cp % 64)>>
    ELSE IF cp < 65536
         THEN <<224 + (cp \div 4096), 128 + ((cp \div 64) % 64), 128 + (cp % 64)>>
    ELSE <<240 + (cp \div 262144), 128 + ((cp \div 4096) % 64),
           128 + ((cp \div 64) % 64), 128 + (cp % 64)>>

\* The bytes res.write(string) puts on the wire.
RECURSIVE Encode(_)
Encode(str) ==
    IF str = <<>> THEN <<>> ELSE EncodeCodePoint(Head(str)) \o Encode(Tail(str))

\* `data: {"error": "Streaming interrupted"}\n\n`
TerminalEvent ==
    << 100, 97, 116, 97, 58, 32, 123, 34, 101, 114, 114, 111, 114, 34, 58, 32,
       34, 83, 116, 114, 101, 97, 109, 105, 110, 103, 32, 105, 110, 116, 101,
       114, 114, 117, 112, 116, 101, 100, 34, 125, 10, 10 >>

(***************************************************************************)
(* The outbound response.                                                  *)
(***************************************************************************)
HeaderNames ==
    {"Access-Control-Allow-Origin", "Access-Control-Allow-Methods",
     "Access-Control-Allow-Headers", "Content-Type", "Cache-Control", "Connection"}

Unset == "(unset)"

NoHeaders == [h \in HeaderNames |-> Unset]

\* A JSON body: an error object {error, message?} or the upstream's document.
JsonBody(error, message, data) == [error |-> error, message |-> message, data |-> data]

NoJson == JsonBody(Unset, Unset, Unset)

NewResponse ==
    [ headers |-> NoHeaders, statusCode |-> 200, headersSent |-> FALSE,
      sentHeaders |-> NoHeaders, body |-> NoJson, written |-> <<>>, ended |-> FALSE ]

SetHeader(r, name, value) == [r EXCEPT !.headers[name] = value]

\* The three setHeader calls at the top of the handler.
SetCors(r) ==
    SetHeader(SetHeader(SetHeader(r,
        "Access-Control-Allow-Origin", "*"),
        "Access-Control-Allow-Methods", "GET, POST, OPTIONS"),
        "Access-Control-Allow-Headers", "Content-Type, Authorization")

\* The six setHeader calls before the relay loop.
SetStreamHeaders(r) ==
    SetHeader(SetHeader(SetHeader(SetHeader(SetHeader(SetHeader(r,
        "Content-Type", "text/event-stream"),
        "Cache-Control", "no-cache"),
        "Connection", "keep-alive"),
        "Access-Control-Allow-Origin", "*"),
        "Access-Control-Allow-Methods", "GET, POST, OPTIONS"),
        "Access-Control-Allow-Headers", "Content-Type")

\* The head of the response goes out with the headers set so far.
FlushHead(r) ==
    IF r.headersSent THEN r
    ELSE [r EXCEPT !.headersSent = TRUE, !.sentHeaders = r.headers]

\* res.status(code).end()
StatusEnd(r, code) == [FlushHead([r EXCEPT !.statusCode = code]) EXCEPT !.ended = TRUE]

\* res.status(code).json(body)
StatusJson(r, code, body) ==
    [FlushHead(SetHeader([r EXCEPT !.statusCode = code],
                         "Content-Type", "application/json; charset=utf-8"))
        EXCEPT !.body = body, !.ended = TRUE]

\* res.write(string): the string's UTF-8 bytes, one entry per call.
Write(r, str) == [FlushHead(r) EXCEPT !.written = Append(r.written, Encode(str))]

\* res.end()
End(r) == [FlushHead(r) EXCEPT !.ended = TRUE]

MethodNotAllowed(r) == StatusJson(r, 405, JsonBody("Method not allowed", Unset, Unset))

ConfigurationError(r) ==
    StatusJson(r, 500, JsonBody("Server configuration error",
        "API key not configured. Please check server environment variables.", Unset))

BadRequest(r) ==
    StatusJson(r, 400, JsonBody("Bad request",
        "Missing required fields: model and messages", Unset))

\* The outer catch: error.message is the fault's text.
InternalError(r, message) == StatusJson(r, 500, JsonBody("Internal server error", message, Unset))

NoResponseBody(r) == StatusJson(r, 500, JsonBody("No response body from API", Unset, Unset))

\* A mutant of RelayUpstreamError: the upstream's status is replaced by 500.
RelayAsServerError(r, status, text) ==
    StatusJson(r, 500, JsonBody("API request failed", text, Unset))

\* res.status(response.status).json({error: 'API request failed', message: errorText})
RelayUpstreamError(r, status, text) ==
    StatusJson(r, status, JsonBody("API request failed", text, Unset))

\* res.status(200).json(data)
RelayData(r, data) == StatusJson(r, 200, JsonBody(Unset, Unset, data))

(***************************************************************************)
(* The inputs.                                                             *)
(***************************************************************************)
MessagesVals ==
    {UndefVal, NullVal, Str(0), Str(2)} \cup {Arr(items) : items \in SeqsUpTo(Entries, MaxMsgs)}

ToolsVals ==
    {UndefVal, NullVal, TrueVal, Str(0), Str(2)}
        \cup {Arr(items) : items \in SeqsUpTo({"tool"}, MaxTools)}

StreamVals == {Undef, "false", "true"}

\* The optional fields the handler's control flow does not read, as sent by
\* two callers: one sends none, the other sends zeros and a tool.
Profiles ==
    { [opt |-> AllUndef, tools |-> UndefVal, tool_choice |-> Undef],
      [opt |-> <<"0", "0", "0", "0", "0", "0">>, tools |-> Arr(<<"tool">>),
       tool_choice |-> "auto"] }

Bodies ==
    { Body(TRUE, model, messages, p.opt, stream, p.tools, p.tool_choice) :
        model \in {Undef, "\"\"", "m"}, messages \in MessagesVals,
        stream \in StreamVals, p \in Profiles }

Request(method, body) == [method |-> method, body |-> body]

Requests ==
    {Request(m, NoBody) : m \in {"OPTIONS", "GET"}}
        \cup {Request("POST", b) : b \in {NoBody} \cup Bodies}

\* process.env.FIREWORKS_API_KEY
ApiKeys == {Undef, "fw_key"}

\* The upstream's answers.
Statuses == {200, 429, 500}

Ok(status) == status >= 200 /\ status <= 299

Texts == {"rate limited", "overloaded"}

\* The decoded JSON document: null, a document without an assistant message,
\* one whose message content is a string, one whose content is an array.
DataVals == {"null", "no content", "string content", "array content"}

\* Chunks of the upstream body: "a", "a" and the first byte of "e acute", the
\* second byte of "e acute", "e acute", a byte order mark.
Chunks == { <<97>>, <<97, 195>>, <<169>>, <<195, 169>>, <<239, 187, 191>> }

(***************************************************************************)
(* The state of one invocation.                                            *)
(***************************************************************************)
VARIABLES
    apiKey,          \* process.env.FIREWORKS_API_KEY
    pc,              \* where the handler is: "idle", an await, "done", "stalled"
    req,             \* the request being handled
    res,             \* the outbound response
    fetched,         \* the upstream calls issued: their payloads and Accept
    hasAdvancedCoD,  \* the handler's local of that name
    up,              \* what the upstream has delivered so far
    chunks,          \* the chunks reader.read() has returned
    decoder,         \* the TextDecoder's state
    closed,          \* the inbound connection has closed
    readsAfterClose  \* chunks read since it closed

vars ==
    <<apiKey, pc, req, res, fetched, hasAdvancedCoD, up, chunks, decoder,
      closed, readsAfterClose>>

NoUpstream ==
    [status |-> 0, hasBody |-> FALSE, text |-> Unset, data |-> Unset, streamEnd |-> Unset]

Init ==
    /\ apiKey \in ApiKeys
    /\ pc = "idle"
    /\ req = Request("OPTIONS", NoBody)
    /\ res = NewResponse
    /\ fetched = <<>>
    /\ hasAdvancedCoD = FALSE
    /\ up = NoUpstream
    /\ chunks = <<>>
    /\ decoder = NewDecoder
    /\ closed = FALSE
    /\ readsAfterClose = 0

\* fetch(url, {method: 'POST', headers, body: JSON.stringify(payload)})
FetchCall(payload, accept) == [payload |-> payload, accept |-> accept]

\* The handler from its entry to its first await or to its response.
Invoke(r) ==
    /\ pc = "idle"
    /\ req' = r
    /\ LET cors == SetCors(res)
           cod == Instrumentation(r.body.messages)
       IN  IF r.method = "OPTIONS"
           THEN /\ res' = StatusEnd(cors, 200)
                /\ pc' = "done"
                /\ UNCHANGED <<fetched, hasAdvancedCoD>>
           ELSE IF r.method # "POST"
           THEN /\ res' = MethodNotAllowed(cors)
                /\ pc' = "done"
                /\ UNCHANGED <<fetched, hasAdvancedCoD>>
           ELSE IF ~ToBoolean(apiKey)
           THEN /\ res' = ConfigurationError(cors)
                /\ pc' = "done"
                /\ UNCHANGED <<fetched, hasAdvancedCoD>>
           ELSE IF ~r.body.present
           THEN /\ res' = InternalError(cors, "Cannot destructure property 'model'")
                /\ pc' = "done"
                /\ UNCHANGED <<fetched, hasAdvancedCoD>>
           ELSE IF MissingRequired(r.body)
           THEN /\ res' = BadRequest(cors)
                /\ pc' = "done"
                /\ UNCHANGED <<fetched, hasAdvancedCoD>>
           ELSE IF cod = "throw"
           THEN /\ res' = InternalError(cors, "TypeError")
                /\ pc' = "done"
                /\ UNCHANGED <<fetched, hasAdvancedCoD>>
           ELSE /\ res' = cors
                /\ hasAdvancedCoD' = (cod = "true")
                /\ fetched' = Append(fetched,
                       FetchCall(FireworksPayload(r.body),
                                 IF ToBoolean(r.body.stream)
                                 THEN "text/event-stream" ELSE Unset))
                /\ pc' = "fetch"
    /\ UNCHANGED <<apiKey, up, chunks, decoder, closed, readsAfterClose>>

Streaming == ToBoolean(req.body.stream)

\* The fetch resolves with a response: its status and whether it has a body.
FetchResolve(status, hasBody) ==
    /\ pc = "fetch"
    /\ up' = [up EXCEPT !.status = status, !.hasBody = hasBody]
    /\ IF ~Ok(status)
       THEN /\ pc' = "text"
            /\ UNCHANGED res
       ELSE IF Streaming
       THEN IF ~hasBody
            THEN /\ res' = NoResponseBody(SetStreamHeaders(res))
                 /\ pc' = "done"
            ELSE /\ res' = SetStreamHeaders(res)
                 /\ pc' = "read"
       ELSE /\ pc' = "json"
            /\ UNCHANGED res
    /\ UNCHANGED <<apiKey, req, fetched, hasAdvancedCoD, chunks, decoder, closed,
                   readsAfterClose>>

\* The fetch rejects (a network fault): the outer catch answers.
FetchReject ==
    /\ pc = "fetch"
    /\ res' = InternalError(res, "fetch failed")
    /\ pc' = "done"
    /\ UNCHANGED <<apiKey, req, fetched, hasAdvancedCoD, up, chunks, decoder,
                   closed, readsAfterClose>>

\* response.text() resolves with the error body.
TextResolve(text) ==
    /\ pc = "text"
    /\ up' = [up EXCEPT !.text = text]
    /\ res' = RelayUpstreamError(res, up.status, text)
    /\ pc' = "done"
    /\ UNCHANGED <<apiKey, req, fetched, hasAdvancedCoD, chunks, decoder, closed,
                   readsAfterClose>>

\* response.text() rejects: the outer catch answers.
TextReject ==
    /\ pc = "text"
    /\ res' = InternalError(res, "terminated")
    /\ pc' = "done"
    /\ UNCHANGED <<apiKey, req, fetched, hasAdvancedCoD, up, chunks, decoder,
                   closed, readsAfterClose>>

\* The response analysis of a buffered success: does it throw?
AnalysisThrows(cod, data) == cod /\ data \in {"null", "array content"}

\* response.json() resolves with the decoded document.
JsonResolve(data) ==
    /\ pc = "json"
    /\ up' = [up EXCEPT !.data = data]
    /\ res' = IF AnalysisThrows(hasAdvancedCoD, data)
              THEN InternalError(res, "TypeError")
              ELSE RelayData(res, data)
    /\ pc' = "done"
    /\ UNCHANGED <<apiKey, req, fetched, hasAdvancedCoD, chunks, decoder, closed,
                   readsAfterClose>>

\* response.json() rejects (the body is not JSON): the outer catch answers.
JsonReject ==
    /\ pc = "json"
    /\ res' = InternalError(res, "Unexpected token")
    /\ pc' = "done"
    /\ UNCHANGED <<apiKey, req, fetched, hasAdvancedCoD, up, chunks, decoder,
                   closed, readsAfterClose>>

\* reader.read() resolves with a chunk: one turn of the relay loop.  The loop
\* does not look at the connection: a write to a closed one does not throw.
ReadChunk(value) ==
    /\ pc = "read"
    /\ Len(chunks) < MaxChunks
    /\ chunks' = Append(chunks, value)
    /\ LET r == Decode(decoder, value)
       IN  /\ decoder' = r[1]
           /\ res' = Write(res, r[2])
    /\ readsAfterClose' = IF closed THEN readsAfterClose + 1 ELSE readsAfterClose
    /\ UNCHANGED <<apiKey, pc, req, fetched, hasAdvancedCoD, up, closed>>

\* reader.read() resolves with done: the loop breaks and the stream is ended.
ReadDone ==
    /\ pc = "read"
    /\ up' = [up EXCEPT !.streamEnd = "done"]
    /\ res' = End(res)
    /\ pc' = "done"
    /\ UNCHANGED <<apiKey, req, fetched, hasAdvancedCoD, chunks, decoder, closed,
                   readsAfterClose>>

\* reader.read() rejects: the inner catch writes the terminal event.
ReadError ==
    /\ pc = "read"
    /\ up' = [up EXCEPT !.streamEnd = "error"]
    /\ res' = End(Write(res, TerminalEvent))
    /\ pc' = "done"
    /\ UNCHANGED <<apiKey, req, fetched, hasAdvancedCoD, chunks, decoder, closed,
                   readsAfterClose>>

\* The caller closes the inbound connection during the relay.
ClientClose ==
    /\ pc = "read"
    /\ ~closed
    /\ closed' = TRUE
    /\ UNCHANGED <<apiKey, pc, req, res, fetched, hasAdvancedCoD, up, chunks,
                   decoder, readsAfterClose>>

Awaiting == {"fetch", "text", "json", "read"}

\* The upstream stops delivering: the fetch and the reads carry no timeout and
\* no abort signal, so the pending await never settles.
UpstreamStall ==
    /\ pc \in Awaiting
    /\ pc' = "stalled"
    /\ UNCHANGED <<apiKey, req, res, fetched, hasAdvancedCoD, up, chunks, decoder,
                   closed, readsAfterClose>>

Next ==
    \/ \E r \in Requests : Invoke(r)
    \/ \E status \in Statuses, hasBody \in BOOLEAN : FetchResolve(status, hasBody)
    \/ FetchReject
    \/ \E text \in Texts : TextResolve(text)
    \/ TextReject
    \/ \E data \in DataVals : JsonResolve(data)
    \/ JsonReject
    \/ \E value \in Chunks : ReadChunk(value)
    \/ ReadDone
    \/ ReadError
    \/ ClientClose
    \/ UpstreamStall

Spec == Init /\ [][Next]_vars

\* The runtime runs every step that is enabled; the upstream is free to stall.
FairSpec == Spec /\ WF_vars(Next)

(***************************************************************************)
(* The payload construction alone, over every combination of the optional  *)
(* fields: absent, zero, or the caller's own value.                        *)
(***************************************************************************)
Custom ==
    <<"1.2", "0.9", "10", "256", "0.5", "-0.5">>

OptVals == [i \in 1..6 |-> {Undef, "0", Custom[i]}]

OptCombinations ==
    {<<a, b, c, d, e, f>> : a \in OptVals[1], b \in OptVals[2], c \in OptVals[3],
                            d \in OptVals[4], e \in OptVals[5], f \in OptVals[6]}

ToolChoices == {Undef, "auto"}

PayloadBody(opt, stream, tools, tool_choice) ==
    Body(TRUE, "m", Arr(<<Entry(FALSE, "string", FALSE)>>), opt, stream, tools,
         tool_choice)

\* The request that arrives is drawn first; the handler is then run on it.
PayloadInit ==
    /\ apiKey \in ApiKeys
    /\ pc = "idle"
    /\ \E opt \in OptCombinations, stream \in StreamVals, tools \in ToolsVals,
          tool_choice \in ToolChoices :
           req = Request("POST", PayloadBody(opt, stream, tools, tool_choice))
    /\ res = NewResponse
    /\ fetched = <<>>
    /\ hasAdvancedCoD = FALSE
    /\ up = NoUpstream
    /\ chunks = <<>>
    /\ decoder = NewDecoder
    /\ closed = FALSE
    /\ readsAfterClose = 0

PayloadNext == Invoke(req)

PayloadSpec == PayloadInit /\ [][PayloadNext]_vars

(***************************************************************************)
(* The claims.                                                             *)
(***************************************************************************)
\* The gates of the handler, as the claims name them: the method is POST, the
\* credential is configured, the body carries model and messages.
GatesPassed ==
    /\ req.method = "POST"
    /\ apiKey \notin {Undef, "\"\""}
    /\ req.body.present
    /\ req.body.model \notin Falsy
    /\ req.body.messages.kind \notin {"undefined", "null"}
    /\ req.body.messages # Str(0)

BadRequestBody ==
    [error |-> "Bad request", message |-> "Missing required fields: model and messages",
     data |-> Unset]

\* C1: in streaming mode, when the upstream delivers chunks c1..cn and then
\* end-of-data, the outbound stream has received exactly c1..cn, each written
\* once and unmodified, in order, with nothing added, and is ended.
C1_RelayExact ==
    (pc = "done" /\ up.streamEnd = "done" /\ ~closed)
        => (res.written = chunks /\ res.ended)

\* C2: in streaming mode, when a read fails after k chunks, the outbound
\* stream holds those k chunks in order, then the one terminal error event,
\* and is ended; nothing more is read or fetched.
C2_TerminalEventAfterChunks ==
    (up.streamEnd = "error" /\ ~closed)
        => /\ res.written = Append(chunks, TerminalEvent)
           /\ res.ended
           /\ Len(fetched) = 1
           /\ ~ENABLED Next

C4_ExactlyOneCall ==
    /\ (fetched # <<>> => GatesPassed)
    /\ Len(fetched) <= 1
    /\ (GatesPassed /\ pc # "idle" => Len(fetched) = 1)
    /\ (pc = "done" /\ ~GatesPassed => fetched = <<>>)

\* C5: whenever the head of the response has been sent, on every path, the
\* three CORS headers sent are *, GET, POST, OPTIONS and
\* Content-Type, Authorization.
C5_CorsOnEveryPath ==
    res.headersSent =>
        /\ res.sentHeaders["Access-Control-Allow-Origin"] = "*"
        /\ res.sentHeaders["Access-Control-Allow-Methods"] = "GET, POST, OPTIONS"
        /\ res.sentHeaders["Access-Control-Allow-Headers"] = "Content-Type, Authorization"

\* C6: when the upstream answers with a non-success status S and body text T,
\* streaming or not, the response is status S with the JSON body
\* {error: "API request failed", message: T}; no event-stream header is set
\* and no chunk is read or written before it.
C6_UpstreamErrorRelayed ==
    /\ (pc = "text" \/ up.text # Unset) =>
          /\ res.headers["Cache-Control"] = Unset
          /\ res.headers["Connection"] = Unset
          /\ res.headers["Content-Type"] # "text/event-stream"
          /\ chunks = <<>>
          /\ res.written = <<>>
    /\ up.text # Unset =>
          /\ pc = "done"
          /\ res.ended
          /\ res.statusCode = up.status
          /\ res.body = [error |-> "API request failed", message |-> up.text,
                         data |-> Unset]
          /\ res.sentHeaders["Content-Type"] = "application/json; charset=utf-8"

\* C6's case: a streaming request whose upstream answered 429 with a body text
\* has been answered.
C6_Witness ==
    /\ pc = "done"
    /\ req.body.stream = "true"
    /\ up.status = 429
    /\ up.text = "rate limited"
    /\ res.statusCode = 429

\* C7: for every POST that passes the gates, whatever the shape of messages
\* and of its entries, the payload goes upstream as it is and the response is
\* the upstream's: the request logging and the response analysis change
\* nothing (a buffered success is relayed as 200 with the document).
C7_InstrumentationTransparent ==
    (pc = "done" /\ GatesPassed) =>
        /\ Len(fetched) = 1
        /\ fetched[1].payload.messages = req.body.messages
        /\ (up.data # Unset =>
               /\ res.statusCode = 200
               /\ res.body = [error |-> Unset, message |-> Unset, data |-> up.data])

\* C8: once the inbound connection has closed during the relay, at most one
\* more chunk is read from the upstream.
C8_StopsAfterClose == readsAfterClose <= 1

\* C9: every invocation eventually completes its response, whatever the
\* upstream does.
C9_AlwaysCompletes == (pc # "idle") ~> (pc = "done" /\ res.ended)

ClaimedDefaults ==
    [ temperature |-> "0.6", top_p |-> "1", top_k |-> "40", max_tokens |-> "8192",
      presence_penalty |-> "0", frequency_penalty |-> "0", stream |-> "false" ]

\* C10: the payload carries model and messages unchanged and, for each
\* optional field, the caller's value when it is supplied and truthy and the
\* default otherwise (a 0 becomes the default); tools is included exactly when
\* it is a non-empty sequence, tool_choice only when tools is.
C10_PayloadDefaults ==
    \A i \in 1..Len(fetched) :
        LET p == fetched[i].payload
            b == req.body
        IN  /\ p.model = b.model
            /\ p.messages = b.messages
            /\ \A f \in DOMAIN ClaimedDefaults :
                  p[f] = IF b[f] \in {"undefined", "null", "false", "0", "\"\""}
                         THEN ClaimedDefaults[f] ELSE b[f]
            /\ \A f \in {"temperature", "top_p", "top_k", "max_tokens"} :
                  b[f] = "0" => p[f] # "0"
            /\ (p.tools # UndefVal) <=>
                  (b.tools.kind \in {"array", "string"} /\ b.tools.len > 0)
            /\ p.tools # UndefVal => p.tools = b.tools
            /\ p.tool_choice # Undef => (p.tools # UndefVal /\ p.tool_choice = b.tool_choice)

\* C10's case: a caller that sent temperature 0, its own top_p and a tool with
\* a tool_choice has had its payload built.
C10_Witness ==
    /\ Len(fetched) = 1
    /\ req.body.temperature = "0"
    /\ req.body.top_p = "0.9"
    /\ req.body.tools = Arr(<<"tool">>)
    /\ fetched[1].payload.temperature = "0.6"
    /\ fetched[1].payload.top_p = "0.9"
    /\ fetched[1].payload.tool_choice = "auto"

====
